---- MODULE Spec2Model ----
(***************************************************************************)
(* A model of portier-go: the in-memory Store (document cache and nonce    *)
(* store), SimpleFetch's cache lifetime, and the Client's StartAuth and    *)
(* Verify.  Goroutines are the processes of Procs; every lock of the store *)
(* is a variable holding its owner.                                        *)
(***************************************************************************)
EXTENDS Integers, Sequences, FiniteSets, TLC

\* ------------------------------------------------------------------ bounds
NumProcs == 2       \* goroutines calling into the store
MaxCalls == 4       \* store calls started in one behaviour

Procs == 1..NumProcs

\* The record f with the fields of g added or replaced.
With(f, g) ==
    [k \in DOMAIN f \cup DOMAIN g |-> IF k \in DOMAIN g THEN g[k] ELSE f[k]]
None == 0           \* an unlocked sync.Mutex has no owner

\* ------------------------------------------------------- nonces (util.go)
NonceBytes == 16
HexDigits == <<"0","1","2","3","4","5","6","7","8","9","a","b","c","d","e","f">>

\* hex.EncodeToString: two lowercase hex digits per byte.
RECURSIVE HexEncode(_)
HexEncode(buf) ==
    IF buf = <<>> THEN ""
    ELSE HexDigits[(Head(buf) \div 16) + 1] \o HexDigits[(Head(buf) % 16) + 1]
         \o HexEncode(Tail(buf))

\* What rand.Read may leave in the buffer: here, one byte value repeated.
RandBytes == {10, 11}
RandReads == { [i \in 1..NonceBytes |-> b] : b \in RandBytes }

GenerateNonce(buf) == HexEncode(buf)

Nil == "nil"                \* a nil error
InvalidNonce == "invalid nonce"

\* ------------------------------------------- int64 and time.Duration
\* An int64 is its eight bytes, least significant first, in two's complement;
\* a time.Duration is an int64 count of nanoseconds.
Bytes64 == 8
Radix == 256
SignByte == 128

\* The int64 of a small number, 0 <= n < 2^31.
Small64(n) == [i \in 1..Bytes64 |-> IF i <= 4 THEN (n \div (Radix ^ (i - 1))) % Radix ELSE 0]

IsNeg64(a) == a[Bytes64] >= SignByte

\* a * b in int64: the product's low 64 bits (Go's wrapping multiplication).
Column(a, b, k) ==
    LET Term[i \in 0..k] ==
            a[i + 1] * b[k - i + 1] + (IF i = 0 THEN 0 ELSE Term[i - 1])
    IN Term[k]
RECURSIVE MulFrom(_, _, _, _)
MulFrom(a, b, k, carry) ==
    IF k = Bytes64 THEN <<>>
    ELSE LET sum == Column(a, b, k) + carry
         IN <<sum % Radix>> \o MulFrom(a, b, k + 1, sum \div Radix)
Mul64(a, b) == MulFrom(a, b, 0, 0)

\* a > b for int64 (signed).
RECURSIVE GreaterFrom(_, _, _)
GreaterFrom(a, b, i) ==
    IF i = 0 THEN FALSE
    ELSE IF a[i] # b[i] THEN a[i] > b[i]
    ELSE GreaterFrom(a, b, i - 1)
Greater64(a, b) ==
    IF IsNeg64(a) # IsNeg64(b) THEN IsNeg64(b)
    ELSE GreaterFrom(a, b, Bytes64)

\* time.Second and time.Minute, as the time package builds them.
Thousand == Small64(1000)
Second == Mul64(Thousand, Mul64(Thousand, Thousand))
Minute == Mul64(Small64(60), Second)

\* Whole seconds of a non-negative Duration: d / time.Second, bit by bit.
Billion == 1000000000
Bit(a, k) == (a[(k \div 8) + 1] \div (2 ^ (k % 8))) % 2
RECURSIVE SecondsFrom(_, _, _, _)
SecondsFrom(a, k, quot, rem) ==
    IF k < 0 THEN quot
    ELSE LET r == 2 * rem + Bit(a, k)
         IN IF r >= Billion THEN SecondsFrom(a, k - 1, 2 * quot + 1, r - Billion)
            ELSE SecondsFrom(a, k - 1, 2 * quot, r)
Seconds(d) == SecondsFrom(d, 8 * Bytes64 - 1, 0, 0)

\* ------------------------------------------------ SimpleFetch (fetch.go)
defaultMaxAge == Minute
ErrMaxAgeMinute == Minute
defaultErrMaxAge == Mul64(Small64(3), Second)

CharAt(s, i) == SubSeq(s, i, i)
IsDigit(c) == c \in {"0", "1", "2", "3", "4", "5", "6", "7", "8", "9"}
DigitValue(c) == CHOOSE d \in 0..9 : HexDigits[d + 1] = c
IsSpace(c) == c \in {" ", "\t", "\n", "\f", "\r"}

\* The regular expression max-age\s*=\s*(\d+): its first submatch in s, for the
\* leftmost place where it matches, or NoMatch.
NoMatch == ""     \* (\d+) never matches the empty string
Literal == "max-age"
RECURSIVE SkipSpaces(_, _)
SkipSpaces(s, i) ==
    IF i <= Len(s) /\ IsSpace(CharAt(s, i)) THEN SkipSpaces(s, i + 1) ELSE i
RECURSIVE DigitsEnd(_, _)
DigitsEnd(s, i) ==
    IF i <= Len(s) /\ IsDigit(CharAt(s, i)) THEN DigitsEnd(s, i + 1) ELSE i
MatchAt(s, i) ==
    IF i + Len(Literal) - 1 > Len(s) \/ SubSeq(s, i, i + Len(Literal) - 1) # Literal
    THEN NoMatch
    ELSE LET eq == SkipSpaces(s, i + Len(Literal)) IN
         IF eq > Len(s) \/ CharAt(s, eq) # "=" THEN NoMatch
         ELSE LET from == SkipSpaces(s, eq + 1)
                  to == DigitsEnd(s, from)
              IN IF to = from THEN NoMatch ELSE SubSeq(s, from, to - 1)
FindMaxAge(s) ==
    LET places == {i \in 1..Len(s) : MatchAt(s, i) # NoMatch}
    IN IF places = {} THEN NoMatch
       ELSE MatchAt(s, CHOOSE i \in places : \A j \in places : i <= j)

\* strconv.ParseInt(digits, 10, 64): the value, or a range error above 2^63 - 1.
RECURSIVE TimesPlus(_, _, _)
TimesPlus(a, m, carry) ==
    IF a = <<>>
    THEN (IF carry = 0 THEN <<>>
          ELSE <<carry % Radix>> \o TimesPlus(<<>>, m, carry \div Radix))
    ELSE LET v == Head(a) * m + carry
         IN <<v % Radix>> \o TimesPlus(Tail(a), m, v \div Radix)
RECURSIVE ParseFrom(_, _, _, _)
ParseFrom(digits, i, acc, ok) ==
    IF i > Len(digits) THEN [ok |-> ok /\ ~IsNeg64(acc), value |-> acc]
    ELSE LET next == TimesPlus(acc, 10, DigitValue(CharAt(digits, i)))
         IN ParseFrom(digits, i + 1, SubSeq(next, 1, Bytes64),
                      ok /\ Len(next) = Bytes64 /\ ~IsNeg64(acc))
ParseInt(digits) == ParseFrom(digits, 1, Small64(0), TRUE)

\* What client.Get and the JSON decoder can produce.
TransportError == "transport error"
StatusError == "unexpected HTTP status"
DecodeError == "json decode error"
Zero == "zero value"          \* the caller's destination, untouched
Partial == "partly decoded"   \* a destination a failed Decode wrote into
Docs == {"doc1", "doc2"}
StatusOK == 200
Statuses == {200, 204, 404, 500}
Headers == {"", "no-cache", "max-age=0", "max-age=59", "max-age=60", "max-age=61",
            "max-age=120", "public, max-age = 3600", "s-maxage=7200",
            "max-age=x, max-age=\t90", "max-age=-5", "max-age=9223372036",
            "max-age=9223372037", "max-age=18446744134",
            "max-age=9223372036854775808"}
TransportFailure ==
    [transport |-> TRUE, status |-> 0, json |-> FALSE, body |-> Zero, cacheControl |-> ""]
Responses ==
    {TransportFailure} \cup
    [transport : {FALSE}, status : Statuses, json : BOOLEAN, body : Docs,
     cacheControl : Headers]

\* SimpleFetch, lines 40-51: the lifetime of a decoded response.
Floor(parsed) == IF Greater64(parsed, defaultMaxAge) THEN parsed ELSE defaultMaxAge

MaxAgeOf(cacheControl) ==
    LET match == FindMaxAge(cacheControl) IN
    IF match = NoMatch THEN defaultMaxAge
    ELSE LET maxAgeInt == ParseInt(match) IN
         IF ~maxAgeInt.ok THEN defaultMaxAge
         ELSE Floor(Mul64(maxAgeInt.value, Second))

\* SimpleFetch, lines 22-54: the lifetime, the error, and what data holds after.
SimpleFetch(res) ==
    IF res.transport
    THEN [maxAge |-> defaultErrMaxAge, err |-> TransportError, data |-> Zero]
    ELSE IF res.status # StatusOK
    THEN [maxAge |-> defaultErrMaxAge, err |-> StatusError, data |-> Zero]
    ELSE IF ~res.json
    THEN [maxAge |-> defaultErrMaxAge, err |-> DecodeError, data |-> Partial]
    ELSE [maxAge |-> MaxAgeOf(res.cacheControl), err |-> Nil, data |-> res.body]

\* ------------------------------------------------- nonce store (store.go)
\* fmt.Sprintf("%s:%s", nonce, email)
PairOf(nonce, email) == nonce \o ":" \o email


\* The emails NewNonce is called with, and the arguments of ConsumeNonce.
IssueEmails == {"y", "x:y"}
ConsumeEmails == {"y", "x:y"}
ConsumeNonces == {GenerateNonce(b) : b \in RandReads}
                 \cup {GenerateNonce([i \in 1..NonceBytes |-> 10]) \o ":x"}

VARIABLES
    nonces,       \* memoryStore.nonces: the set of stored pair strings
    noncesLock,   \* memoryStore.noncesLock: its owner, or None
    pc,           \* where each goroutine is
    frame,        \* the arguments, locals and result of each goroutine's call
    calls,        \* calls started so far
    issued,       \* history: <<nonce, email>> issued, with no ConsumeNonce of them returned since
    spent,        \* history: <<nonce, email>> issued, with a ConsumeNonce of them returned since
    response,     \* what the network answers to the SimpleFetch under study
    fetched,      \* what that SimpleFetch returned
    cfg,          \* the Config handed to the NewClient under study
    made,         \* what that NewClient returned
    heap,         \* the values callers passed to Fetch, by address: what each holds
    handed,       \* history: the documents Fetch handed out, as they were then
    deferred,     \* history: issued <<nonce, email>> of a valid token whose Verify
                  \* failed on a fetch, with no Verify of them having called
                  \* ConsumeNonce since
    cache,        \* memoryStore.cache: the entry of each URL, or NoEntry
    cacheLock,    \* memoryStore.cacheLock: its owner, or None
    entryLock,    \* the sync.Mutex of each cacheEntry: its owner, or None
    now,          \* time.Now(), in seconds
    returned      \* what the last Fetch or Client call to return handed its caller

nonceVars == <<nonces, noncesLock, issued, spent>>
procVars == <<pc, frame, calls>>
ageVars == <<response, fetched, cfg, made, heap, handed, deferred>>
cacheVars == <<cache, cacheLock, entryLock, now, returned>>
vars == <<nonceVars, procVars, ageVars, cacheVars>>

Broker == "https://broker.portier.io"
discoveryPath == "/.well-known/openid-configuration"
DiscoveryURL == Broker \o discoveryPath
KeysURL == Broker \o "/keys.json"
URLs == {DiscoveryURL, KeysURL}
NoEntry == [err |-> "no entry"]
ZeroTime == 0       \* the zero time.Time of a new cacheEntry: no later than any now
NoCache == [u \in URLs |-> NoEntry]
NoLocks == [u \in URLs |-> None]

NoFrame == [op |-> "none"]
NoReturn == [op |-> "none"]
NoConfig == [Broker |-> "none"]
NotConstructed == [err |-> "not called"]
NotFetched == [err |-> "not called"]
InFlight(p) == pc[p] # "idle"
Done(p, op) == pc[p] = "idle" /\ frame[p].op = op
Name(p) == <<frame[p].nonce, frame[p].email>>

\* NewNonce, lines 194-195: the nonce and the pair are made before locking.
CallNewNonce(p) ==
    /\ pc[p] = "idle"
    /\ calls < MaxCalls
    /\ \E email \in IssueEmails, buf \in RandReads :
          LET nonce == GenerateNonce(buf) IN
          frame' = [frame EXCEPT ![p] =
                      [op |-> "NewNonce", nonce |-> nonce, email |-> email,
                       pair |-> PairOf(nonce, email)]]
    /\ pc' = [pc EXCEPT ![p] = "nn_lock"]
    /\ calls' = calls + 1
    /\ UNCHANGED <<nonces, noncesLock, issued, spent>>

\* sync.Mutex.Lock: blocks while the lock has an owner.
MutexIgnored(owner) == TRUE
MutexFree(owner) == owner = None

LockNonces(p, at, to) ==
    /\ pc[p] = at
    /\ MutexFree(noncesLock)
    /\ noncesLock' = p
    /\ pc' = [pc EXCEPT ![p] = to]
    /\ UNCHANGED <<nonces, frame, calls, issued, spent>>

NewNonceLock(p) == LockNonces(p, "nn_lock", "nn_body")

\* A goroutine's call on the pair of p's call is no longer undisturbed.
Spoil(f, pair) ==
    [q \in Procs |->
        IF f[q].op = "ConsumeNonce" /\ f[q].pair = pair
        THEN [f[q] EXCEPT !.spoiled = TRUE] ELSE f[q]]

\* NewNonce, lines 200-201, and the deferred Unlock.
NewNonceBody(p) ==
    /\ pc[p] = "nn_body"
    /\ nonces' = nonces \cup {frame[p].pair}
    /\ noncesLock' = None
    /\ pc' = [pc EXCEPT ![p] = "idle"]
    /\ frame' = Spoil([frame EXCEPT ![p] = [op |-> "NewNonce", nonce |-> frame[p].nonce,
                                            email |-> frame[p].email, err |-> Nil]],
                      frame[p].pair)
    /\ issued' = issued \cup {Name(p)}
    /\ spent' = spent \ {Name(p)}
    /\ UNCHANGED calls

\* ConsumeNonce, line 205.
CallConsumeNonce(p) ==
    /\ pc[p] = "idle"
    /\ calls < MaxCalls
    /\ \E nonce \in ConsumeNonces, email \in ConsumeEmails :
          LET rivals == {q \in Procs \ {p} :
                            /\ InFlight(q) /\ frame[q].op = "ConsumeNonce"
                            /\ frame[q].nonce = nonce /\ frame[q].email = email}
              mine == [op |-> "ConsumeNonce", nonce |-> nonce, email |-> email,
                       pair |-> PairOf(nonce, email), rivals |-> rivals,
                       spoiled |-> FALSE]
          IN frame' = [q \in Procs |->
                         IF q = p THEN mine
                         ELSE IF q \in rivals
                              THEN [frame[q] EXCEPT !.rivals = @ \cup {p}]
                              ELSE frame[q]]
    /\ pc' = [pc EXCEPT ![p] = "cn_lock"]
    /\ calls' = calls + 1
    /\ UNCHANGED <<nonces, noncesLock, issued, spent>>

ConsumeNonceLock(p) == LockNonces(p, "cn_lock", "cn_lookup")

\* What p's ConsumeNonce returns, with what the history said when it looked.
Outcome(p, err, changed) ==
    [op |-> "ConsumeNonce", nonce |-> frame[p].nonce, email |-> frame[p].email,
     pair |-> frame[p].pair, rivals |-> frame[p].rivals, spoiled |-> frame[p].spoiled,
     err |-> err, changed |-> changed,
     wasIssued |-> Name(p) \in issued, wasSpent |-> Name(p) \in spent]

\* ConsumeNonce, lines 210-212: the pair is not stored.
Stored(set, pair) == pair \in set

ConsumeNonceMiss(p) ==
    /\ pc[p] = "cn_lookup"
    /\ ~Stored(nonces, frame[p].pair)
    /\ noncesLock' = None
    /\ pc' = [pc EXCEPT ![p] = "idle"]
    /\ frame' = [frame EXCEPT ![p] = Outcome(p, InvalidNonce, FALSE)]
    /\ issued' = issued \ {Name(p)}
    /\ spent' = spent \cup ({Name(p)} \cap issued)
    /\ UNCHANGED <<nonces, calls>>

ConsumeNonceHit(p) ==
    /\ pc[p] = "cn_lookup"
    /\ Stored(nonces, frame[p].pair)
    /\ pc' = [pc EXCEPT ![p] = "cn_delete"]
    /\ UNCHANGED <<nonces, noncesLock, frame, calls, issued, spent>>

\* ConsumeNonce, lines 214-215, and the deferred Unlock.
Deleted(set, pair) == set \ {pair}

ConsumeNonceDelete(p) ==
    /\ pc[p] = "cn_delete"
    /\ nonces' = Deleted(nonces, frame[p].pair)
    /\ noncesLock' = None
    /\ pc' = [pc EXCEPT ![p] = "idle"]
    /\ frame' = [frame EXCEPT ![p] = Outcome(p, Nil, nonces' # nonces)]
    /\ issued' = issued \ {Name(p)}
    /\ spent' = spent \cup ({Name(p)} \cap issued)
    /\ UNCHANGED calls

InitNonce ==
    /\ nonces = {}
    /\ noncesLock = None
    /\ pc = [p \in Procs |-> "idle"]
    /\ frame = [p \in Procs |-> NoFrame]
    /\ calls = 0
    /\ issued = {}
    /\ spent = {}
    /\ response = TransportFailure
    /\ fetched = NotFetched
    /\ cfg = NoConfig
    /\ made = NotConstructed
    /\ heap = <<>> /\ handed = {} /\ deferred = {}
    /\ cache = NoCache /\ cacheLock = None /\ entryLock = NoLocks /\ now = ZeroTime
    /\ returned = NoReturn

NextNonce ==
    /\ \E p \in Procs :
          \/ CallNewNonce(p)
          \/ NewNonceLock(p)
          \/ NewNonceBody(p)
          \/ CallConsumeNonce(p)
          \/ ConsumeNonceLock(p)
          \/ ConsumeNonceMiss(p)
          \/ ConsumeNonceHit(p)
          \/ ConsumeNonceDelete(p)
    /\ UNCHANGED <<ageVars, cacheVars>>

SpecNonce == InitNonce /\ [][NextNonce]_vars

\* ------------------------------------------- SimpleFetch on its own
InitAge ==
    /\ response \in Responses
    /\ fetched = NotFetched
    /\ cfg = NoConfig
    /\ made = NotConstructed
    /\ heap = <<>> /\ handed = {} /\ deferred = {}
    /\ nonces = {} /\ noncesLock = None
    /\ issued = {} /\ spent = {}
    /\ pc = [p \in Procs |-> "idle"]
    /\ frame = [p \in Procs |-> NoFrame]
    /\ calls = 0
    /\ cache = NoCache /\ cacheLock = None /\ entryLock = NoLocks /\ now = ZeroTime
    /\ returned = NoReturn

CallSimpleFetch ==
    /\ fetched = NotFetched
    /\ fetched' = SimpleFetch(response)
    /\ UNCHANGED <<response, cfg, made, heap, handed, deferred, nonceVars, procVars, cacheVars>>

NextAge == CallSimpleFetch

SpecAge == InitAge /\ [][NextAge]_vars

\* ------------------------------------------ document cache (store.go)
MaxFetches == 2     \* Fetch calls started in one behaviour
MaxTime == 3        \* seconds the clock runs

\* What the network answers to the GETs of memoryStore.Fetch.
FetchResponses ==
    {r \in Responses :
        \/ r = TransportFailure
        \/ r.status = StatusOK /\ ~r.json /\ r.body = "doc1" /\ r.cacheControl = ""
        \/ r.status = StatusOK /\ r.json /\ r.body = "doc2" /\ r.cacheControl = "max-age=120"}

\* What each of them makes SimpleFetch return, with the lifetime in seconds.
Outcomes(responses) ==
    {With(SimpleFetch(r), [seconds |-> Seconds(SimpleFetch(r).maxAge)]) : r \in responses}
NetOutcomes == Outcomes(FetchResponses)

\* !time.Now().Before(entry.expires), line 179
ExpiredAlways(t, expires) == TRUE
Expired(t, expires) == ~(t < expires)

NeedsRefresh(url) == cache[url] = NoEntry \/ Expired(now, cache[url].expires)

\* Fetch is called: the caller passes a pointer to a zero value.
\* stale and hung are history: whether the entry needed refreshing at the call,
\* and the goroutines whose GET was under way then and still is.
CallFetch(p) ==
    /\ pc[p] = "idle"
    /\ calls < MaxFetches
    /\ \E url \in URLs :
          frame' = [frame EXCEPT ![p] =
                      [op |-> "Fetch", url |-> url, data |-> Zero,
                       stale |-> NeedsRefresh(url),
                       hung |-> {q \in Procs : pc[q] = "net"},
                       didNet |-> FALSE]]
    /\ pc' = [pc EXCEPT ![p] = "gc_lock"]
    /\ calls' = calls + 1
    /\ UNCHANGED <<cacheVars, nonceVars, ageVars>>

\* getCacheEntry, line 162
GetCacheEntryLock(p) ==
    /\ pc[p] = "gc_lock"
    /\ MutexFree(cacheLock)
    /\ cacheLock' = p
    /\ pc' = [pc EXCEPT ![p] = "gc_body"]
    /\ UNCHANGED <<cache, entryLock, now, returned, frame, calls, nonceVars, ageVars>>

\* getCacheEntry, lines 165-171, and the deferred Unlock of line 163.
\* at, gen and owed are history: when and how many times the entry was
\* refreshed, and the goroutines that were waiting for that refresh.
NewEntry ==
    [data |-> Nil, err |-> Nil, expires |-> ZeroTime,
     at |-> ZeroTime, gen |-> 0, owed |-> {}]
UnlockedNever(p) == p
Unlocked(p) == None

GetCacheEntryBody(p) ==
    /\ pc[p] = "gc_body"
    /\ cache' = IF cache[frame[p].url] # NoEntry THEN cache
                ELSE [cache EXCEPT ![frame[p].url] = NewEntry]
    /\ cacheLock' = Unlocked(p)
    /\ pc' = [pc EXCEPT ![p] = "e_lock"]
    /\ UNCHANGED <<entryLock, now, returned, frame, calls, nonceVars, ageVars>>

\* Fetch, line 176
EntryLock(p) ==
    /\ pc[p] = "e_lock"
    /\ MutexFree(entryLock[frame[p].url])
    /\ entryLock' = [entryLock EXCEPT ![frame[p].url] = p]
    /\ pc' = [pc EXCEPT ![p] = "check"]
    /\ UNCHANGED <<cache, cacheLock, now, returned, frame, calls, nonceVars, ageVars>>

\* Fetch, lines 179-181: an expired entry takes the caller's value and the GET
\* is sent; an entry that has not expired is left as it is.
FetchCheck(p) ==
    LET url == frame[p].url IN
    /\ pc[p] = "check"
    /\ IF Expired(now, cache[url].expires)
       THEN /\ cache' = [cache EXCEPT ![url].data = frame[p].data]
            /\ pc' = [pc EXCEPT ![p] = "net"]
            /\ frame' = [frame EXCEPT ![p] =
                           With(frame[p], [didNet |-> TRUE, checkedAt |-> now])]
       ELSE /\ cache' = cache
            /\ pc' = [pc EXCEPT ![p] = "return"]
            /\ frame' = [frame EXCEPT ![p] = With(frame[p], [checkedAt |-> now])]
    /\ UNCHANGED <<cacheLock, entryLock, now, returned, calls, nonceVars, ageVars>>

\* The goroutines that called Fetch for the URL of p while its entry needed
\* refreshing, as p did, and have not reached the entry yet.
Waiting(p) ==
    {q \in Procs \ {p} :
        /\ frame[p].stale
        /\ pc[q] \in {"gc_lock", "gc_body", "e_lock"}
        /\ frame[q].url = frame[p].url
        /\ frame[q].stale}

\* Fetch, lines 181-183: SimpleFetch returns; the entry keeps its error and
\* expires maxAge after the time it returned.
Refreshed(entry, got, t, owed) ==
    [data |-> got.data, err |-> got.err, expires |-> t + got.seconds,
     at |-> t, gen |-> entry.gen + 1, owed |-> owed]

FetchNet(p) ==
    /\ pc[p] = "net"
    /\ \E got \in NetOutcomes :
          cache' = [cache EXCEPT ![frame[p].url] =
                      Refreshed(cache[frame[p].url], got, now, Waiting(p))]
    /\ frame' = [q \in Procs |->
                   IF InFlight(q) /\ frame[q].op = "Fetch"
                   THEN [frame[q] EXCEPT !.hung = @ \ {p}]
                   ELSE frame[q]]
    /\ returned' = IF returned.op = "Fetch" THEN [returned EXCEPT !.hung = @ \ {p}]
                   ELSE returned
    /\ pc' = [pc EXCEPT ![p] = "return"]
    /\ UNCHANGED <<cacheLock, entryLock, now, calls, nonceVars, ageVars>>

\* Fetch, lines 186-190: the caller's value is set only when there is no error.
Result(entry, data) ==
    [err |-> entry.err, data |-> IF entry.err = Nil THEN entry.data ELSE data]

\* Fetch, lines 186-190, and the deferred Unlock of line 177.
FetchReturn(p) ==
    LET url == frame[p].url IN
    /\ pc[p] = "return"
    /\ returned' = With(Result(cache[url], frame[p].data),
                        [op |-> "Fetch", url |-> url, didNet |-> frame[p].didNet,
                         gen |-> cache[url].gen, owed |-> p \in cache[url].owed,
                         hung |-> frame[p].hung])
    /\ cache' = [cache EXCEPT ![url].owed = @ \ {p}]
    /\ frame' = [frame EXCEPT ![p] = NoFrame]
    /\ entryLock' = [entryLock EXCEPT ![url] = Unlocked(p)]
    /\ pc' = [pc EXCEPT ![p] = "idle"]
    /\ UNCHANGED <<cacheLock, now, calls, nonceVars, ageVars>>

\* A second passes.
Tick ==
    /\ now < MaxTime
    /\ now' = now + 1
    /\ UNCHANGED <<cache, cacheLock, entryLock, returned, procVars, nonceVars, ageVars>>

InitFetch ==
    /\ cache = NoCache /\ cacheLock = None /\ entryLock = NoLocks /\ now = ZeroTime
    /\ returned = NoReturn
    /\ pc = [p \in Procs |-> "idle"]
    /\ frame = [p \in Procs |-> NoFrame]
    /\ calls = 0
    /\ nonces = {} /\ noncesLock = None
    /\ issued = {} /\ spent = {}
    /\ response = TransportFailure
    /\ fetched = NotFetched
    /\ cfg = NoConfig
    /\ made = NotConstructed
    /\ heap = <<>> /\ handed = {} /\ deferred = {}

NextFetch ==
    \/ \E p \in Procs :
          \/ CallFetch(p)
          \/ GetCacheEntryLock(p)
          \/ GetCacheEntryBody(p)
          \/ EntryLock(p)
          \/ FetchCheck(p)
          \/ FetchNet(p)
          \/ FetchReturn(p)
    \/ Tick

SpecFetch == InitFetch /\ [][NextFetch]_vars

\* -------------------------- the three operations of the store together
\* Goroutines call Fetch, NewNonce and ConsumeNonce side by side. A goroutine
\* that can take a step is scheduled in the end and a GET returns in the end:
\* each goroutine's steps are weakly fair. Nothing more is asked of
\* sync.Mutex: a waiter need only get a mutex that stays unlocked.
MaxLiveCalls == 2   \* calls of the store started in one behaviour

LiveEmail == "y"   \* the address of every nonce call
LiveNonce == GenerateNonce([i \in 1..NonceBytes |-> 10])   \* and its nonce

StoreCall(p) ==
    /\ calls < MaxLiveCalls
    /\ \/ CallFetch(p)
       \/ /\ CallNewNonce(p) \/ CallConsumeNonce(p)
          /\ frame'[p].email = LiveEmail
          /\ frame'[p].nonce = LiveNonce
          /\ UNCHANGED <<ageVars, cacheVars>>

StoreLock(p) ==
    \/ GetCacheEntryLock(p)
    \/ EntryLock(p)
    \/ NewNonceLock(p) /\ UNCHANGED <<ageVars, cacheVars>>
    \/ ConsumeNonceLock(p) /\ UNCHANGED <<ageVars, cacheVars>>

StoreStep(p) ==
    \/ GetCacheEntryBody(p)
    \/ FetchCheck(p)
    \/ FetchNet(p)
    \/ FetchReturn(p)
    \/ /\ \/ NewNonceBody(p)
          \/ ConsumeNonceMiss(p)
          \/ ConsumeNonceHit(p)
          \/ ConsumeNonceDelete(p)
       /\ UNCHANGED <<ageVars, cacheVars>>

NextStore == \E p \in Procs : StoreCall(p) \/ StoreLock(p) \/ StoreStep(p)

Fairness == \A p \in Procs : WF_vars(StoreLock(p) \/ StoreStep(p))

SpecStore == InitNonce /\ [][NextStore]_vars /\ Fairness

\* ------------------------------- documents of the cache, by address (store.go)
\* Fetch with the values its callers pass told apart: each call brings a new
\* zero value, entry.data points at one of them, and json Decode writes into
\* the one it is given.
MaxDocFetches == 2  \* Fetch calls started in one behaviour
Nap == 60           \* seconds the clock jumps at a time
MaxDocTime == 120   \* no jump of the clock after this time
\* What the network answers: no answer, a body that is not JSON, and two
\* documents, kept 60 and 120 seconds.
DocResponses ==
    FetchResponses
    \cup {r \in Responses :
             r.status = StatusOK /\ r.json /\ r.body = "doc1" /\ r.cacheControl = ""}
DocOutcomes == Outcomes(DocResponses)
ZeroValue == [doc |-> Zero, url |-> Nil, writes |-> 0]

\* Fetch is called with a pointer to a pointer to a new zero value.
DocCall(p) ==
    /\ pc[p] = "idle"
    /\ calls < MaxDocFetches
    /\ heap' = Append(heap, ZeroValue)
    /\ \E url \in URLs :
          frame' = [frame EXCEPT ![p] = [op |-> "Fetch", url |-> url, data |-> Len(heap')]]
    /\ pc' = [pc EXCEPT ![p] = "gc_lock"]
    /\ calls' = calls + 1
    /\ UNCHANGED <<cacheVars, nonceVars, response, fetched, cfg, made, handed, deferred>>

\* Fetch, line 180: the entry takes ownership of the caller's value.
OwnedOnce(entry, value) == IF entry.expires = ZeroTime THEN value ELSE entry.data
Owned(entry, value) == value

\* Fetch, lines 179-180
DocCheck(p) ==
    LET url == frame[p].url IN
    /\ pc[p] = "check"
    /\ IF Expired(now, cache[url].expires)
       THEN /\ cache' = [cache EXCEPT ![url].data = Owned(cache[url], frame[p].data)]
            /\ pc' = [pc EXCEPT ![p] = "net"]
       ELSE /\ cache' = cache
            /\ pc' = [pc EXCEPT ![p] = "return"]
    /\ UNCHANGED <<cacheLock, entryLock, now, returned, frame, calls, nonceVars, ageVars>>

\* SimpleFetch, lines 25-37 of fetch.go: the GET fails, with nothing decoded, or
\* json Decode begins to write into entry.data.
DocGet(p) ==
    LET url == frame[p].url IN
    /\ pc[p] = "net"
    /\ \E got \in DocOutcomes :
          IF got.data = Zero
          THEN /\ cache' = [cache EXCEPT ![url].err = got.err,
                                         ![url].expires = now + got.seconds]
               /\ pc' = [pc EXCEPT ![p] = "return"]
               /\ UNCHANGED <<heap, frame>>
          ELSE /\ heap' = [heap EXCEPT ![cache[url].data] =
                              [doc |-> Partial, url |-> url, writes |-> @.writes + 1]]
               /\ frame' = [frame EXCEPT ![p] = With(frame[p], [got |-> got])]
               /\ pc' = [pc EXCEPT ![p] = "decode"]
               /\ cache' = cache
    /\ UNCHANGED <<cacheLock, entryLock, now, returned, calls, nonceVars,
                   response, fetched, cfg, made, handed, deferred>>

\* SimpleFetch, lines 37-54 of fetch.go, and Fetch, lines 182-183: Decode ends,
\* with the document or with an error.
DocDecode(p) ==
    LET url == frame[p].url
        got == frame[p].got
    IN /\ pc[p] = "decode"
       /\ heap' = [heap EXCEPT ![cache[url].data].doc = got.data]
       /\ cache' = [cache EXCEPT ![url].err = got.err, ![url].expires = now + got.seconds]
       /\ pc' = [pc EXCEPT ![p] = "return"]
       /\ UNCHANGED <<cacheLock, entryLock, now, returned, frame, calls, nonceVars,
                      response, fetched, cfg, made, handed, deferred>>

\* Fetch, lines 186-190, and the deferred Unlock of line 177: with no error the
\* caller's pointer is set to entry.data.
DocReturn(p) ==
    LET url == frame[p].url
        entry == cache[url]
    IN /\ pc[p] = "return"
       /\ handed' = IF entry.err # Nil THEN handed
                    ELSE handed \cup {[url |-> url, data |-> entry.data,
                                       doc |-> heap[entry.data].doc]}
       /\ returned' = [op |-> "Fetch", url |-> url, err |-> entry.err,
                       data |-> IF entry.err = Nil THEN entry.data ELSE frame[p].data]
       /\ frame' = [frame EXCEPT ![p] = NoFrame]
       /\ entryLock' = [entryLock EXCEPT ![url] = Unlocked(p)]
       /\ pc' = [pc EXCEPT ![p] = "idle"]
       /\ UNCHANGED <<cache, cacheLock, now, calls, nonceVars,
                      response, fetched, cfg, made, heap, deferred>>

\* Time passes.
Sleep ==
    /\ now < MaxDocTime
    /\ now' = now + Nap
    /\ UNCHANGED <<cache, cacheLock, entryLock, returned, procVars, nonceVars, ageVars>>

NextDocs ==
    \/ \E p \in Procs :
          \/ DocCall(p)
          \/ GetCacheEntryLock(p)
          \/ GetCacheEntryBody(p)
          \/ EntryLock(p)
          \/ DocCheck(p)
          \/ DocGet(p)
          \/ DocDecode(p)
          \/ DocReturn(p)
    \/ Sleep

SpecDocs == InitFetch /\ [][NextDocs]_vars

\* ------------------------------------------------------------ URLs (net/url)
\* URL strings here carry no percent escape and no bracketed host, so that
\* Path, Host and Fragment are the raw text and RawPath and RawFragment stay
\* empty, as url.Parse leaves them for such text.
\* The first place of c in s at or after i, and its last place at or before
\* i; 0 when there is none.
Index(s, c, i) ==
    LET places == {j \in i..Len(s) : CharAt(s, j) = c}
    IN IF places = {} THEN 0 ELSE CHOOSE j \in places : \A k \in places : j <= k
LastIndex(s, c, i) ==
    LET places == {j \in 1..i : CharAt(s, j) = c}
    IN IF places = {} THEN 0 ELSE CHOOSE j \in places : \A k \in places : j >= k
\* The pieces lo..hi of a sequence of strings, one after the other.
RECURSIVE Join(_, _, _)
Join(pieces, lo, hi) ==
    IF lo > hi THEN "" ELSE IF lo = hi THEN pieces[lo]
    ELSE Join(pieces, lo, (lo + hi) \div 2) \o Join(pieces, (lo + hi) \div 2 + 1, hi)
Before(s, i) == SubSeq(s, 1, i - 1)
After(s, i) == SubSeq(s, i + 1, Len(s))
HasPrefix(s, prefix) == Len(s) >= Len(prefix) /\ SubSeq(s, 1, Len(prefix)) = prefix

\* The printable ASCII characters in code order: from the space, code 32, to
\* the underscore, code 95, and from a, code 97, to the tilde, code 126.
AsciiLow == " !\"#$%&'()*+,-./0123456789:;<=>?@ABCDEFGHIJKLMNOPQRSTUVWXYZ[\\]^_"
AsciiHigh == "abcdefghijklmnopqrstuvwxyz{|}~"
Code(c) ==
    IF Index(AsciiHigh, c, 1) # 0 THEN Index(AsciiHigh, c, 1) + 96
    ELSE Index(AsciiLow, c, 1) + 31
CharOf(code) == IF code > 96 THEN CharAt(AsciiHigh, code - 96) ELSE CharAt(AsciiLow, code - 31)
IsLower(c) == Code(c) >= Code("a") /\ Code(c) <= Code("z")
IsUpper(c) == Code(c) >= Code("A") /\ Code(c) <= Code("Z")
ToLower(s) ==
    Join([i \in 1..Len(s) |->
             LET c == CharAt(s, i) IN
             IF IsUpper(c) THEN CharOf(Code(c) + Code("a") - Code("A")) ELSE c],
         1, Len(s))

\* getScheme: the place of the colon that ends the scheme, NoScheme when the
\* text has no scheme, MissingScheme when it begins with a colon.
NoScheme == 0
MissingScheme == -1
RECURSIVE SchemeEnd(_, _)
SchemeEnd(s, i) ==
    IF i > Len(s) THEN NoScheme
    ELSE LET c == CharAt(s, i) IN
         IF IsLower(c) \/ IsUpper(c) THEN SchemeEnd(s, i + 1)
         ELSE IF IsDigit(c) \/ c \in {"+", "-", "."}
         THEN (IF i = 1 THEN NoScheme ELSE SchemeEnd(s, i + 1))
         ELSE IF c = ":" THEN (IF i = 1 THEN MissingScheme ELSE i)
         ELSE NoScheme

\* validOptionalPort, for the text of a host from its last colon on.
AllDigits(s) == \A i \in 1..Len(s) : IsDigit(CharAt(s, i))
ValidOptionalPort(host) ==
    LET colon == LastIndex(host, ":", Len(host))
    IN colon = 0 \/ AllDigits(After(host, colon))

NoUser == "nil"     \* URL.User of a URL with no user-info
EmptyURL ==
    [err |-> Nil, Scheme |-> "", Opaque |-> "", User |-> NoUser, Host |-> "",
     Path |-> "", RawPath |-> "", ForceQuery |-> FALSE, RawQuery |-> "",
     Fragment |-> "", RawFragment |-> ""]
ParseFailure(rawURL, why) == [err |-> "parse \"" \o rawURL \o "\": " \o why]

\* url.Parse, from its last step to its first.
\* parseHost: the host, with a port that is empty or digits.
parseHost(rawURL, base, user, host, path) ==
    IF ~ValidOptionalPort(host)
    THEN ParseFailure(rawURL, "invalid port \""
                        \o After(host, LastIndex(host, ":", Len(host)) - 1)
                        \o "\" after host")
    ELSE [base EXCEPT !.Host = host, !.Path = path, !.User = user]

\* parseAuthority: the user-info is what stands before the last @.
UserOf(authority) ==
    IF LastIndex(authority, "@", Len(authority)) = 0 THEN NoUser
    ELSE Before(authority, LastIndex(authority, "@", Len(authority)))
HostOf(authority) ==
    IF LastIndex(authority, "@", Len(authority)) = 0 THEN authority
    ELSE After(authority, LastIndex(authority, "@", Len(authority)))
parseAuthority(rawURL, base, authority, path) ==
    parseHost(rawURL, base, UserOf(authority), HostOf(authority), path)

\* parse, after the scheme and the query are cut off: rest is opaque, a
\* path, or // with an authority that ends at the next slash.
FirstSegment(rest) ==
    IF Index(rest, "/", 1) = 0 THEN rest ELSE Before(rest, Index(rest, "/", 1))
AuthorityText(rest) ==
    IF Index(rest, "/", 3) = 0 THEN After(rest, 2)
    ELSE SubSeq(rest, 3, Index(rest, "/", 3) - 1)
PathText(rest) ==
    IF Index(rest, "/", 3) = 0 THEN ""
    ELSE SubSeq(rest, Index(rest, "/", 3), Len(rest))
parseRest(rawURL, base, rest) ==
    IF ~HasPrefix(rest, "/")
    THEN IF base.Scheme # "" THEN [base EXCEPT !.Opaque = rest]
         ELSE IF Index(FirstSegment(rest), ":", 1) # 0
         THEN ParseFailure(rawURL, "first path segment in URL cannot contain colon")
         ELSE [base EXCEPT !.Path = rest]
    ELSE IF HasPrefix(rest, "//")
    THEN parseAuthority(rawURL, base, AuthorityText(rest), PathText(rest))
    ELSE [base EXCEPT !.Path = rest]

\* parse, after the scheme: a question mark at the end forces an empty query,
\* one before the end starts the query.
ForceQueryOf(text) == Index(text, "?", 1) # 0 /\ Index(text, "?", 1) = Len(text)
QueryOf(text) ==
    IF Index(text, "?", 1) = 0 \/ ForceQueryOf(text) THEN ""
    ELSE After(text, Index(text, "?", 1))
RestOf(text) ==
    IF Index(text, "?", 1) = 0 THEN text ELSE Before(text, Index(text, "?", 1))
parseAfterScheme(rawURL, scheme, text, frag) ==
    parseRest(rawURL,
              [EmptyURL EXCEPT !.Scheme = scheme, !.ForceQuery = ForceQueryOf(text),
                               !.RawQuery = QueryOf(text), !.Fragment = frag],
              RestOf(text))

\* parse: getScheme gave the place of the colon.
parseScheme(rawURL, u, colon, frag) ==
    IF colon = MissingScheme THEN ParseFailure(rawURL, "missing protocol scheme")
    ELSE parseAfterScheme(rawURL,
                          IF colon = NoScheme THEN "" ELSE ToLower(Before(u, colon)),
                          IF colon = NoScheme THEN u ELSE After(u, colon),
                          frag)
parse(rawURL, u, frag) == parseScheme(rawURL, u, SchemeEnd(u, 1), frag)

\* Parse: the fragment is cut off at the first #
Parse(rawURL) ==
    parse(rawURL,
          IF Index(rawURL, "#", 1) = 0 THEN rawURL
          ELSE Before(rawURL, Index(rawURL, "#", 1)),
          IF Index(rawURL, "#", 1) = 0 THEN ""
          ELSE After(rawURL, Index(rawURL, "#", 1)))

\* URL.IsAbs
IsAbs(url) == url.Scheme # ""

\* URL.String
String(url) ==
    (IF url.Scheme # "" THEN url.Scheme \o ":" ELSE "")
    \o (IF url.Opaque # "" THEN url.Opaque
        ELSE (IF (url.Scheme # "" \/ url.Host # "" \/ url.User # NoUser)
                 /\ (url.Host # "" \/ url.Path # "" \/ url.User # NoUser)
              THEN "//" \o (IF url.User # NoUser THEN url.User \o "@" ELSE "") \o url.Host
              ELSE "")
             \o (IF url.Path # "" /\ ~HasPrefix(url.Path, "/") /\ url.Host # ""
                 THEN "/" ELSE "")
             \o url.Path)
    \o (IF url.ForceQuery \/ url.RawQuery # "" THEN "?" \o url.RawQuery ELSE "")
    \o (IF url.Fragment # "" THEN "#" \o url.Fragment ELSE "")

\* url.QueryEscape: letters, digits and - _ . ~ stay, a space becomes +, and
\* any other character becomes % and its code in two upper-case hex digits.
UpperHex == "0123456789ABCDEF"
ShouldEscape(c) ==
    ~(IsLower(c) \/ IsUpper(c) \/ IsDigit(c) \/ c \in {"-", "_", ".", "~"})
QueryEscape(s) ==
    Join([i \in 1..Len(s) |->
             LET c == CharAt(s, i) IN
             IF c = " " THEN "+"
             ELSE IF ShouldEscape(c)
             THEN "%" \o CharAt(UpperHex, (Code(c) \div 16) + 1)
                      \o CharAt(UpperHex, (Code(c) % 16) + 1)
             ELSE c],
         1, Len(s))

\* Values.Encode: key=value for each key, in the order of the keys, with & in
\* between; url.Values as a function from the keys set to their value.
RECURSIVE Less(_, _)
Less(a, b) ==
    IF b = "" THEN FALSE ELSE IF a = "" THEN TRUE
    ELSE IF CharAt(a, 1) # CharAt(b, 1) THEN Code(CharAt(a, 1)) < Code(CharAt(b, 1))
    ELSE Less(After(a, 1), After(b, 1))
RECURSIVE EncodeKeys(_, _)
EncodeKeys(q, keys) ==
    IF keys = {} THEN ""
    ELSE LET k == CHOOSE x \in keys : \A y \in keys \ {x} : Less(x, y) IN
         QueryEscape(k) \o "=" \o QueryEscape(q[k])
         \o (IF keys = {k} THEN "" ELSE "&" \o EncodeKeys(q, keys \ {k}))
Encode(q) == EncodeKeys(q, DOMAIN q)

\* isOrigin, util.go
isOrigin(url) ==
    /\ url.Scheme # ""
    /\ url.User = NoUser
    /\ url.Path = ""
    /\ url.RawPath = ""
    /\ url.ForceQuery = FALSE
    /\ url.RawQuery = ""
    /\ url.Fragment = ""
    /\ url.RawFragment = ""

\* originOf, util.go
originWithPath(url) == url.Scheme \o "://" \o url.Host \o url.Path
originOf(url) ==
    IF url.Opaque # "" THEN url.Scheme \o ":" \o url.Opaque
    ELSE url.Scheme \o "://" \o url.Host

\* ------------------------------------------------ NewClient (client.go)
ResponseModeFormPost == "form_post"
ResponseModeFragment == "fragment"
DefaultLeeway == Mul64(Small64(3), Minute)
NoStore == "nil"                \* Config.Store left nil
MemoryStore == "memoryStore"    \* NewMemoryStore(&http.Client{...})
NoClient == "nil"

\* The Configs NewClient is called with.
Brokers ==
    {"", "https://b", "https://b/", "https://b/p", "https://b?q=1", "https://b?",
     "https://b#f", "https://u@b", "b", "https://b:x", "b:c/d", "https:"}
RedirectURIs == {"", "https://app/verify", "/verify", "app:cb", ":x", "HTTPS://app"}
ResponseModes == {"", "form_post", "fragment", "query"}
Configs ==
    [Store : {NoStore, "custom"}, Broker : Brokers, RedirectURI : RedirectURIs,
     ResponseMode : ResponseModes, Leeway : {Small64(0), Second}]

\* NewClient, lines 84-136
NewClient(config) ==
    LET store == IF config.Store = NoStore THEN MemoryStore ELSE config.Store
        broker == IF config.Broker = "" THEN Broker ELSE config.Broker
        responseMode == IF config.ResponseMode = "" THEN ResponseModeFormPost
                        ELSE config.ResponseMode
        leeway == IF config.Leeway = Small64(0) THEN DefaultLeeway ELSE config.Leeway
        brokerURL == Parse(broker)
        redirectURI == Parse(config.RedirectURI)
        Refused(err) == [err |-> err, client |-> NoClient]
    IN IF config.RedirectURI = "" THEN Refused("RedirectURI not set")
       ELSE IF responseMode \notin {ResponseModeFormPost, ResponseModeFragment}
       THEN Refused("invalid ResponseMode: " \o responseMode)
       ELSE IF brokerURL.err # Nil THEN Refused("invalid broker: " \o brokerURL.err)
       ELSE IF ~isOrigin(brokerURL)
       THEN Refused("invalid broker: URL is not an HTTP(S) origin")
       ELSE IF redirectURI.err # Nil
       THEN Refused("invalid redirect URI: " \o redirectURI.err)
       ELSE IF ~IsAbs(redirectURI) THEN Refused("invalid redirect URI: must be absolute")
       ELSE [err |-> Nil,
             client |-> [store |-> store, broker |-> broker, brokerURL |-> brokerURL,
                         redirectURI |-> config.RedirectURI,
                         responseMode |-> responseMode, leeway |-> leeway,
                         clientID |-> originOf(redirectURI)]]

InitConfig ==
    /\ cfg \in Configs
    /\ made = NotConstructed
    /\ heap = <<>> /\ handed = {} /\ deferred = {}
    /\ response = TransportFailure /\ fetched = NotFetched
    /\ nonces = {} /\ noncesLock = None
    /\ issued = {} /\ spent = {}
    /\ pc = [p \in Procs |-> "idle"]
    /\ frame = [p \in Procs |-> NoFrame]
    /\ calls = 0
    /\ cache = NoCache /\ cacheLock = None /\ entryLock = NoLocks /\ now = ZeroTime
    /\ returned = NoReturn

CallNewClient ==
    /\ made = NotConstructed
    /\ made' = NewClient(cfg)
    /\ UNCHANGED <<cfg, response, fetched, heap, handed, deferred, nonceVars, procVars, cacheVars>>

NextConfig == CallNewClient

SpecConfig == InitConfig /\ [][NextConfig]_vars

\* ------------------------------------------------------ Client (client.go)
\* A client made by NewClient with the in-memory store; its calls run one
\* after the other.
MaxClientCalls == 3     \* StartAuth and Verify calls made in one behaviour
RedirectURI == "https://app/verify"
ClientID == originOf(Parse(RedirectURI))      \* NewClient, line 133
ResponseMode == "form_post"

\* The discovery documents the broker may serve: doc1 names an authorization
\* endpoint that url.Parse refuses, doc2 one that carries a query of its own.
JWKsURI(doc) == KeysURL
AuthorizationEndpoint(doc) ==
    IF doc = "doc1" THEN ":auth" ELSE Broker \o "/auth?prompt=login"

ClientResponses ==
    {r \in Responses :
        \/ r = TransportFailure
        \/ r.status = StatusOK /\ r.json /\ r.body = "doc1" /\ r.cacheControl = ""
        \/ r.status = StatusOK /\ r.json /\ r.body = "doc2" /\ r.cacheControl = "max-age=120"}
ClientOutcomes == Outcomes(ClientResponses)

\* What jwt.Parse says of a token with the key set and the client's issuer,
\* audience and leeway, and the claims token.Get finds: "" where the claim is
\* missing or not a string.
ParseErrors == {Nil, "failed to verify signature", "iss not satisfied",
                "aud not satisfied", "exp not satisfied"}
N10 == GenerateNonce([i \in 1..NonceBytes |-> 10])
Tokens ==
    [parse : {Nil}, nonce : {"", N10, N10 \o ":x"},
     email : {"", "y"}, email_original : {"", "x:y"}]
    \cup [parse : ParseErrors, nonce : {N10}, email : {"y"}, email_original : {"x:y"}]

\* memoryStore.Fetch from call to return with no other goroutine in between,
\* when the network, if asked, answers got: the cache and the result.
FetchAlone(c, url, got, t) ==
    LET entry == IF c[url] = NoEntry THEN NewEntry ELSE c[url]
        after == IF Expired(t, entry.expires)
                 THEN Refreshed([entry EXCEPT !.data = Zero], got, t, {})
                 ELSE entry
    IN [cache |-> [c EXCEPT ![url] = after], result |-> Result(after, Zero)]

\* What the network may answer to that Fetch: nothing, when it is not asked.
NotAsked == [err |-> "not asked"]
Answers(c, url, t) ==
    IF c[url] = NoEntry \/ Expired(t, c[url].expires) THEN ClientOutcomes ELSE {NotAsked}

\* fetchDiscovery, lines 138-147
fetchDiscovery(c, got, t) ==
    LET f == FetchAlone(c, DiscoveryURL, got, t) IN
    [cache |-> f.cache, discovery |-> f.result.data,
     err |-> IF f.result.err = Nil THEN Nil
             ELSE "could not fetch discovery document: " \o f.result.err]

Failed(op, err) == [op |-> op, err |-> err]

\* StartAuth, lines 165-174: the redirect URL for a parsed endpoint.
Values(email, nonce) ==
    [login_hint |-> email, scope |-> "openid email", nonce |-> nonce,
     response_type |-> "id_token", response_mode |-> ResponseMode,
     client_id |-> ClientID, redirect_uri |-> RedirectURI]
AuthURL(authURL, email, nonce) ==
    String([authURL EXCEPT !.RawQuery = Encode(Values(email, nonce))])

\* url.Parse of each endpoint the broker may name, and the redirect URL for
\* each document, email and nonce, computed once.
Endpoints == [doc \in Docs |-> Parse(AuthorizationEndpoint(doc))]
RedirectURLs ==
    [doc \in {d \in Docs : Endpoints[d].err = Nil}, email \in IssueEmails,
     nonce \in {GenerateNonce(buf) : buf \in RandReads}
        |-> AuthURL(Endpoints[doc], email, nonce)]

\* StartAuth, lines 151-153 and 156-158: the returns that come before the
\* NewNonce of line 160 leave the store as it is.
IssuedFirst(set, pair) == set \cup {pair}
NotIssued(set, pair) == set

\* StartAuth, lines 149-175
StartAuth ==
    /\ calls < MaxClientCalls
    /\ calls' = calls + 1
    /\ \E email \in IssueEmails, got \in Answers(cache, DiscoveryURL, now), buf \in RandReads :
          LET d == fetchDiscovery(cache, got, now)
              authURL == Endpoints[d.discovery]
              nonce == GenerateNonce(buf)
          IN /\ cache' = d.cache
             /\ IF d.err # Nil
                THEN /\ returned' = Failed("StartAuth", d.err)
                     /\ nonces' = NotIssued(nonces, PairOf(nonce, email))
                     /\ UNCHANGED <<issued, spent>>
                ELSE IF authURL.err # Nil
                THEN /\ returned' = Failed("StartAuth",
                                           "invalid authorization_endpoint: " \o authURL.err)
                     /\ nonces' = NotIssued(nonces, PairOf(nonce, email))
                     /\ UNCHANGED <<issued, spent>>
                ELSE /\ nonces' = nonces \cup {PairOf(nonce, email)}
                     /\ issued' = issued \cup {<<nonce, email>>}
                     /\ spent' = spent \ {<<nonce, email>>}
                     /\ returned' =
                           [op |-> "StartAuth", err |-> Nil, email |-> email,
                            endpoint |-> AuthorizationEndpoint(d.discovery),
                            url |-> RedirectURLs[d.discovery, email, nonce]]
    /\ UNCHANGED <<cacheLock, entryLock, now, noncesLock, pc, frame, ageVars>>

\* Verify, lines 202 and 208: the claim is missing, or is not a string.
MissingNever(claim) == FALSE
Missing(claim) == claim = ""

\* Verify, lines 212-216
BindingIsEmail(token) == token.email
BindingEmail(token) ==
    IF token.email_original = "" THEN token.email ELSE token.email_original

\* Verify, lines 177-226: the cache and the nonces it leaves, what it returns,
\* and whether it called ConsumeNonce.
Verified(token, c, set, gotD, gotK, t) ==
    LET d == fetchDiscovery(c, gotD, t)
        k == FetchAlone(d.cache, JWKsURI(d.discovery), gotK, t)
        pair == PairOf(token.nonce, BindingEmail(token))
        Rejected(after, err) ==
            [cache |-> after, nonces |-> set, err |-> err, email |-> "",
             parsed |-> FALSE, called |-> FALSE]
    IN IF d.err # Nil THEN Rejected(d.cache, d.err)
       ELSE IF k.result.err # Nil
       THEN Rejected(k.cache, "FetchKeys error: " \o k.result.err)
       ELSE IF token.parse # Nil
       THEN Rejected(k.cache, "jwt.Parse error: " \o token.parse)
       ELSE IF Missing(token.nonce)
       THEN [Rejected(k.cache, "nonce claim missing") EXCEPT !.parsed = TRUE]
       ELSE IF Missing(token.email)
       THEN [Rejected(k.cache, "email claim missing") EXCEPT !.parsed = TRUE]
       ELSE IF ~Stored(set, pair)
       THEN [cache |-> k.cache, nonces |-> set, err |-> "invalid session",
             email |-> "", parsed |-> TRUE, called |-> TRUE]
       ELSE [cache |-> k.cache, nonces |-> Deleted(set, pair), err |-> Nil,
             email |-> token.email, parsed |-> TRUE, called |-> TRUE]

\* Verify, lines 178-186: the error is that of a fetch.
FetchFailed(err) ==
    \/ HasPrefix(err, "could not fetch discovery document: ")
    \/ HasPrefix(err, "FetchKeys error: ")

\* wasIssued, wasSpent, wasDeferred and changed are history, as in the store's
\* ConsumeNonce, and removed is the set of pairs the call took out of the store.
Verify ==
    /\ calls < MaxClientCalls
    /\ calls' = calls + 1
    /\ \E token \in Tokens, gotD \in Answers(cache, DiscoveryURL, now) :
       \E gotK \in Answers(fetchDiscovery(cache, gotD, now).cache, KeysURL, now) :
          LET v == Verified(token, cache, nonces, gotD, gotK, now)
              name == <<token.nonce, BindingEmail(token)>>
          IN /\ cache' = v.cache
             /\ nonces' = v.nonces
             /\ issued' = IF v.called THEN issued \ {name} ELSE issued
             /\ spent' = IF v.called THEN spent \cup ({name} \cap issued) ELSE spent
             /\ deferred' = IF v.called THEN deferred \ {name}
                            ELSE IF FetchFailed(v.err) /\ token.parse = Nil
                                    /\ name \in issued
                            THEN deferred \cup {name}
                            ELSE deferred
             /\ returned' =
                   [op |-> "Verify", err |-> v.err, email |-> v.email, token |-> token,
                    parsed |-> v.parsed, called |-> v.called,
                    changed |-> v.nonces # nonces, removed |-> nonces \ v.nonces,
                    wasIssued |-> name \in issued, wasSpent |-> name \in spent,
                    wasDeferred |-> name \in deferred]
    /\ UNCHANGED <<cacheLock, entryLock, now, noncesLock, pc, frame,
                   response, fetched, cfg, made, heap, handed>>

InitClient == InitFetch

NextClient ==
    \/ StartAuth
    \/ Verify
    \/ Tick

SpecClient == InitClient /\ [][NextClient]_vars

\* ------------------------------------------------------------ claims C1-C3
ConsumeDone(p) == Done(p, "ConsumeNonce")

\* C1: after n = NewNonce(e), the first ConsumeNonce(n, e) to return succeeds,
\* and a later ConsumeNonce(n, e), with no NewNonce(e) giving n again in
\* between, returns InvalidNonce.
C1_FirstConsumeSucceeds ==
    \A p \in Procs :
        ConsumeDone(p) =>
            /\ frame[p].wasIssued => frame[p].err = Nil
            /\ frame[p].wasSpent => frame[p].err = InvalidNonce

\* C2: of the ConsumeNonce calls that run concurrently for one issued pair, with
\* no NewNonce storing that pair again meanwhile, exactly one succeeds, the one
\* that looks the pair up first, and every other one returns InvalidNonce.
C2_ConcurrentConsumeOneWinner ==
    \A p \in Procs :
        (ConsumeDone(p) /\ frame[p].rivals # {} /\ ~frame[p].spoiled) =>
            /\ frame[p].err \in {Nil, InvalidNonce}
            /\ frame[p].wasIssued => frame[p].err = Nil
            /\ \A q \in frame[p].rivals :
                  (ConsumeDone(q) /\ Name(q) = Name(p) /\ ~frame[q].spoiled)
                  => ~(frame[p].err = Nil /\ frame[q].err = Nil)

\* C3: ConsumeNonce(n, e) succeeds only if NewNonce(e) returned n and no
\* ConsumeNonce(n, e) has returned since; otherwise it returns InvalidNonce and
\* leaves the stored pairs as they were.
C3_ConsumeOnlyExactPair ==
    \A p \in Procs :
        ConsumeDone(p) =>
            /\ frame[p].err = Nil => frame[p].wasIssued
            /\ ~frame[p].wasIssued => (frame[p].err = InvalidNonce /\ ~frame[p].changed)

\* ----------------------------------------------------------------- claim C8
\* Natural numbers of any size, as bytes, least significant first: what the
\* claim's arithmetic means, with no machine width.
RECURSIVE Trim(_)
Trim(a) == IF a # <<>> /\ a[Len(a)] = 0 THEN Trim(SubSeq(a, 1, Len(a) - 1)) ELSE a
RECURSIVE NaturalFrom(_, _, _)
NaturalFrom(digits, i, acc) ==
    IF i > Len(digits) THEN Trim(acc)
    ELSE NaturalFrom(digits, i + 1, TimesPlus(acc, 10, DigitValue(CharAt(digits, i))))
Natural(digits) == NaturalFrom(digits, 1, <<>>)
RECURSIVE LargerFrom(_, _, _)
LargerFrom(a, b, i) ==
    IF i = 0 THEN a ELSE IF a[i] # b[i] THEN (IF a[i] > b[i] THEN a ELSE b)
    ELSE LargerFrom(a, b, i - 1)
Larger(a, b) ==
    IF Len(a) # Len(b) THEN (IF Len(a) > Len(b) THEN a ELSE b) ELSE LargerFrom(a, b, Len(a))
SecondsAsNanos(a) == Trim(TimesPlus(TimesPlus(TimesPlus(a, 1000, 0), 1000, 0), 1000, 0))
IsDuration(d, nanos) == ~IsNeg64(d) /\ Trim(d) = nanos

\* C8 (the lifetime): after a failed fetch the lifetime is 3 seconds; after a
\* decoded response it is the larger of 60 seconds and the header's max-age, and
\* 60 seconds when the header has no max-age.
C8_LifetimeIsFloorOrMaxAge ==
    fetched # NotFetched =>
        IF response.transport \/ response.status # StatusOK \/ ~response.json
        THEN IsDuration(fetched.maxAge, SecondsAsNanos(<<3>>))
        ELSE LET match == FindMaxAge(response.cacheControl) IN
             IF match = NoMatch
             THEN IsDuration(fetched.maxAge, SecondsAsNanos(<<60>>))
             ELSE IsDuration(fetched.maxAge,
                             SecondsAsNanos(Larger(<<60>>, Natural(match))))

\* --------------------------------------------------- claims C6, C7, C9, C10
ErrWindow == 3      \* seconds a failure is kept: defaultErrMaxAge
PastLock(p) == pc[p] \in {"check", "net", "return"}
Entry(p) == cache[frame[p].url]
Fresh == returned.op = "Fetch" /\ returned.gen = cache[returned.url].gen

\* C6, as stated: of the Fetch calls that were waiting for the same URL while
\* its entry needed a refresh, exactly one makes a network call; a call that
\* waited for another call's refresh never makes one of its own.
C6_ExactlyOneNetworkCall ==
    \A q \in Procs : pc[q] = "net" => q \notin Entry(q).owed

\* C6, amended: concurrent Fetch calls for one URL check and refresh its entry
\* one at a time; a call that waited for another call's refresh makes no
\* network call exactly when it reads the clock before the refreshed entry
\* expires, and what a call returns is the outcome of the refresh the entry holds.
C6_CoalescedUntilExpiry ==
    /\ \A p, q \in Procs :
          (p # q /\ PastLock(p) /\ PastLock(q)) => frame[p].url # frame[q].url
    /\ \A q \in Procs :
          (pc[q] \in {"net", "return"} /\ q \in Entry(q).owed) =>
             (frame[q].didNet <=> frame[q].checkedAt >= Entry(q).expires)
    /\ Fresh =>
          /\ returned.err = cache[returned.url].err
          /\ returned.err = Nil => returned.data = cache[returned.url].data

C6_Witness ==
    /\ Fresh
    /\ returned.owed
    /\ ~returned.didNet
    /\ returned.err = Nil
    /\ returned.data = "doc2"

\* C7: a Fetch that finds an entry that has not expired makes no network call
\* and returns what the entry holds: its error, or else its data; a call that
\* comes after a successful refresh gets the data of that refresh.
C7_UnexpiredEntryIsReturned ==
    /\ \A p \in Procs : pc[p] = "net" => frame[p].checkedAt >= Entry(p).expires
    /\ \A p \in Procs :
          (pc[p] = "return" /\ ~frame[p].didNet) => frame[p].checkedAt < Entry(p).expires
    /\ (Fresh /\ ~returned.didNet) =>
          /\ cache[returned.url].gen > 0
          /\ returned.err = cache[returned.url].err
          /\ returned.data = IF returned.err = Nil THEN cache[returned.url].data ELSE Zero

C7_Witness ==
    /\ Fresh
    /\ ~returned.didNet
    /\ ~returned.owed
    /\ returned.err = Nil
    /\ returned.data = "doc2"
    /\ now < cache[returned.url].expires

\* C9: a goroutine inside the network call of a Fetch holds neither the map
\* lock nor the lock of any other URL's entry, and the map lock is held only
\* inside getCacheEntry: a Fetch for another URL is not kept waiting by it.
C9_DifferentUrlsDoNotBlock ==
    /\ \A p \in Procs : pc[p] = "net" =>
          /\ cacheLock # p
          /\ \A u \in URLs \ {frame[p].url} : entryLock[u] # p
    /\ cacheLock # None => pc[cacheLock] = "gc_body"

C9_Witness ==
    \E p \in Procs :
       /\ pc[p] = "net"
       /\ returned.op = "Fetch"
       /\ returned.url # frame[p].url
       /\ returned.didNet
       /\ p \in returned.hung

\* C10: a Fetch that reads the clock less than 3 seconds after a failed fetch
\* of its URL makes no network call and returns that error, leaving the
\* caller's value alone; one that reads it later makes a network call.
C10_FailureKeptThreeSeconds ==
    /\ \A p \in Procs : (pc[p] = "net" /\ Entry(p).err # Nil) =>
          frame[p].checkedAt >= Entry(p).at + ErrWindow
    /\ \A p \in Procs : (pc[p] = "return" /\ ~frame[p].didNet /\ Entry(p).err # Nil) =>
          frame[p].checkedAt < Entry(p).at + ErrWindow
    /\ (Fresh /\ ~returned.didNet /\ cache[returned.url].err # Nil) =>
          /\ returned.err = cache[returned.url].err
          /\ returned.data = Zero

C10_Witness ==
    \E p \in Procs :
       /\ pc[p] = "net"
       /\ Fresh
       /\ frame[p].url = returned.url
       /\ returned.didNet
       /\ returned.err # Nil
       /\ Entry(p).err = returned.err
       /\ frame[p].checkedAt = Entry(p).at + ErrWindow

\* ------------------------------------------------------------ claims C4, C5
Accepted == returned.op = "Verify" /\ returned.parsed /\ returned.token.parse = Nil
BoundPair == PairOf(returned.token.nonce, BindingEmail(returned.token))

\* C4: a Verify of a token that jwt.Parse accepts, whose nonce claim and binding
\* email are those of a StartAuth with no Verify of them since, returns the
\* token's email claim and removes the pair; a Verify of them after that one
\* fails with "invalid session".
C4_VerifyOnceThenInvalidSession ==
    (/\ Accepted
     /\ returned.token.nonce # ""
     /\ returned.token.email # "") =>
        /\ returned.wasIssued =>
              /\ returned.err = Nil
              /\ returned.email = returned.token.email
              /\ ~Stored(nonces, BoundPair)
        /\ returned.wasSpent => returned.err = "invalid session"

\* C5: a Verify that jwt.Parse refuses, or whose nonce or email claim is
\* missing or empty, is rejected without a call of ConsumeNonce: the stored
\* pairs are those of before the call.
C5_RejectedTokenConsumesNothing ==
    (/\ returned.op = "Verify"
     /\ \/ returned.token.parse # Nil
        \/ returned.token.nonce = ""
        \/ returned.token.email = "") =>
        /\ returned.err \notin {Nil, "invalid session"}
        /\ ~returned.called
        /\ ~returned.changed

C5_Witness ==
    /\ returned.op = "Verify"
    /\ returned.err = "email claim missing"
    /\ returned.token.email_original = "x:y"
    /\ Stored(nonces, BoundPair)

\* ---------------------------------------------------------------- claim C11
\* How the broker reads the redirect URL it is sent.
\* url.QueryUnescape, for text QueryEscape can produce: a % begins an escape
\* of three characters, since a % of the plain text is escaped itself.
HexValue(c) == Index(UpperHex, c, 1) - 1
QueryUnescape(s) ==
    Join([i \in 1..Len(s) |->
             LET c == CharAt(s, i) IN
             IF c = "%"
             THEN CharOf(16 * HexValue(CharAt(s, i + 1)) + HexValue(CharAt(s, i + 2)))
             ELSE IF (i > 1 /\ CharAt(s, i - 1) = "%") \/ (i > 2 /\ CharAt(s, i - 2) = "%")
             THEN ""
             ELSE IF c = "+" THEN " " ELSE c],
         1, Len(s))

\* url.ParseQuery, as the broker reads the query: the set of its <<key, value>>.
RECURSIVE ParseQuery(_)
ParseQuery(query) ==
    IF query = "" THEN {}
    ELSE LET amp == Index(query, "&", 1)
             part == IF amp = 0 THEN query ELSE Before(query, amp)
             more == IF amp = 0 THEN "" ELSE After(query, amp)
             eq == Index(part, "=", 1)
             key == IF eq = 0 THEN part ELSE Before(part, eq)
             value == IF eq = 0 THEN "" ELSE After(part, eq)
         IN (IF part = "" THEN {} ELSE {<<QueryUnescape(key), QueryUnescape(value)>>})
            \cup ParseQuery(more)

Started == returned.op = "StartAuth" /\ returned.err = Nil
Query(str) == ParseQuery(Parse(str).RawQuery)
Queries == [u \in {RedirectURLs[x] : x \in DOMAIN RedirectURLs} |-> Query(u)]
Param(query, key) == {kv[2] : kv \in {x \in query : x[1] = key}}

\* Scheme and host of an absolute URL string, as the text before its third slash.
SchemeAndHost(str) ==
    LET third == Index(str, "/", Index(str, "/", Index(str, "/", 1) + 1) + 1)
    IN IF third = 0 THEN str ELSE Before(str, third)

\* C11: after a successful StartAuth(email) the store holds the pair of the
\* URL's nonce parameter and the email, and the URL's query carries exactly the
\* seven parameters: login_hint the email, scope "openid email", the nonce,
\* response_type "id_token", the configured response mode, client_id the scheme
\* and host of the redirect URI, and redirect_uri the configured redirect URI.
C11_StartAuthStoresNonceOfUrl ==
    Started =>
        LET query == Queries[returned.url] IN
        /\ Cardinality(Param(query, "nonce")) = 1
        /\ \A n \in Param(query, "nonce") :
              /\ Stored(nonces, PairOf(n, returned.email))
              /\ query = {<<"login_hint", returned.email>>, <<"scope", "openid email">>,
                          <<"nonce", n>>, <<"response_type", "id_token">>,
                          <<"response_mode", "form_post">>,
                          <<"client_id", SchemeAndHost(RedirectURI)>>,
                          <<"redirect_uri", RedirectURI>>}

C11_Witness ==
    /\ Started
    /\ returned.email = "x:y"
    /\ \E n \in Param(Queries[returned.url], "nonce") : Len(n) = 2 * NonceBytes
    /\ Param(Queries[returned.url], "client_id") = {"https://app"}

\* ---------------------------------------------------------------- claim C12
\* C12: Verify consumes the nonce for the pair of the nonce claim and the
\* email_original claim when that claim is present and not empty, and for the
\* pair of the nonce claim and the email claim otherwise; what it returns on
\* success is the email claim in both cases.
C12_ConsumesForOriginalReturnsEmail ==
    (returned.op = "Verify" /\ returned.called) =>
        LET token == returned.token
            bound == IF token.email_original # "" THEN token.email_original
                     ELSE token.email
            pair == token.nonce \o ":" \o bound
        IN IF returned.err = Nil
           THEN /\ returned.removed = {pair}
                /\ pair \notin nonces
                /\ returned.email = token.email
           ELSE /\ returned.removed = {}
                /\ pair \notin nonces

C12_Witness ==
    /\ returned.op = "Verify"
    /\ returned.err = Nil
    /\ returned.token.email_original = "x:y"
    /\ returned.token.email = "y"
    /\ returned.email = "y"
    /\ returned.removed = {N10 \o ":x:y"}

\* ---------------------------------------------------------------- claim C13
\* C13: for a token that passes validation and carries nonce and email claims,
\* Verify returns the one error "invalid session" whenever the pair it is bound
\* to is not an issued pair still to be consumed: never issued, consumed
\* already, or issued for another email.
C13_UnknownPairIsInvalidSession ==
    (/\ Accepted
     /\ returned.token.nonce # ""
     /\ returned.token.email # ""
     /\ ~returned.wasIssued) =>
        returned.err = "invalid session"

\* ---------------------------------------------------------------- claim C14
\* What the text of a URL shows: a scheme (a letter, then letters, digits, +,
\* - or ., up to a colon), an authority after "//", and a path after that.
HasScheme(str) ==
    LET colon == Index(str, ":", 1) IN
    /\ colon > 1
    /\ IsLower(CharAt(str, 1)) \/ IsUpper(CharAt(str, 1))
    /\ \A i \in 1..(colon - 1) :
          LET c == CharAt(str, i) IN
          IsLower(c) \/ IsUpper(c) \/ IsDigit(c) \/ c \in {"+", "-", "."}
Has(str, c) == Index(str, c, 1) # 0
HierPart(str) ==
    LET hier == After(str, Index(str, ":", 1))
        cut == {i \in 1..Len(hier) : CharAt(hier, i) \in {"?", "#"}}
    IN IF cut = {} THEN hier
       ELSE Before(hier, CHOOSE i \in cut : \A j \in cut : i <= j)
AuthorityOf(str) ==
    LET hier == HierPart(str)
        end == Index(hier, "/", 3)
    IN IF ~HasPrefix(hier, "//") THEN ""
       ELSE IF end = 0 THEN After(hier, 2) ELSE SubSeq(hier, 3, end - 1)
PathOf(str) ==
    LET hier == HierPart(str)
        end == Index(hier, "/", 3)
    IN IF ~HasPrefix(hier, "//") THEN hier
       ELSE IF end = 0 THEN "" ELSE SubSeq(hier, end, Len(hier))
BrokerOf(config) == IF config.Broker = "" THEN "https://broker.portier.io" ELSE config.Broker
NotBare(str) ==
    \/ ~HasScheme(str)
    \/ PathOf(str) # ""
    \/ Has(str, "?")
    \/ Has(str, "#")
    \/ Has(str, "@")
ValidOrigin(str) == ~NotBare(str) /\ AuthorityOf(str) # ""

\* C14: NewClient returns an error and no Client whenever the redirect URI is
\* empty or not absolute, the response mode is set to something other than
\* form_post or fragment, or the broker has a path, a query, a fragment or
\* user-info, or no scheme; hence every Client it constructs has an absolute
\* redirect URI and a broker that is a valid origin, a scheme and a host.
C14_InvalidConfigIsRefused ==
    made # NotConstructed =>
        /\ (\/ cfg.RedirectURI = ""
            \/ ~HasScheme(cfg.RedirectURI)
            \/ cfg.ResponseMode \notin {"", "form_post", "fragment"}
            \/ NotBare(BrokerOf(cfg))) =>
              (made.err # Nil /\ made.client = NoClient)
        /\ made.err = Nil =>
              /\ HasScheme(made.client.redirectURI)
              /\ ValidOrigin(made.client.broker)

\* ---------------------------------------------------------------- claim C15
\* C15: every document a caller received from a successful Fetch is the
\* complete decoded body of one single successful response for that URL, and
\* it is at all later times what it was when handed out: no refresh of the
\* URL, successful, failing or under way, writes into it.
C15_HandedDocumentsStayAsReceived ==
    \A h \in handed :
        /\ h.doc \in Docs
        /\ heap[h.data].doc = h.doc
        /\ heap[h.data].url = h.url
        /\ heap[h.data].writes = 1

C15_Witness ==
    \E h \in handed :
        /\ cache[h.url].data # h.data
        /\ heap[cache[h.url].data].doc \in (Docs \cup {Partial}) \ {h.doc}

\* ---------------------------------------------------------------- claim C16
\* C16: an issued pair stays in the store until it is consumed: after
\* n = NewNonce(e), whatever calls follow for other pairs, the pair (n, e) is
\* stored, so that ConsumeNonce(n, e) succeeds, as long as no ConsumeNonce(n, e)
\* has returned.
C16_IssuedPairPersists ==
    \A name \in issued : (name[1] \o ":" \o name[2]) \in nonces

\* ---------------------------------------------------------------- claim C17
\* The endpoints and the redirect URLs as the broker parses them.
Seen ==
    [str \in {RedirectURLs[x] : x \in DOMAIN RedirectURLs}
             \cup {AuthorizationEndpoint(doc) : doc \in Docs} |-> Parse(str)]
SevenParameters ==
    {"login_hint", "scope", "nonce", "response_type", "response_mode", "client_id",
     "redirect_uri"}

\* C17: the URL StartAuth returns is the discovery document's
\* authorization_endpoint with the seven parameters appended to its query: it
\* has the endpoint's scheme, host and path, and the query parameters of the
\* endpoint are still in its query.
C17_EndpointQueryIsKept ==
    Started =>
        LET endpoint == Seen[returned.endpoint]
            url == Seen[returned.url]
        IN /\ url.Scheme = endpoint.Scheme
           /\ url.Host = endpoint.Host
           /\ url.Path = endpoint.Path
           /\ SevenParameters \subseteq {kv[1] : kv \in ParseQuery(url.RawQuery)}
           /\ ParseQuery(endpoint.RawQuery) \subseteq ParseQuery(url.RawQuery)

\* ---------------------------------------------------------------- claim C19
\* C19: a StartAuth call that returns an error, because the discovery fetch
\* failed, its failure is still memoized, or the authorization_endpoint is
\* malformed, issues no nonce: the stored pairs after the call are those of
\* before it.
C19_FailedStartAuthIssuesNothing ==
    [][(calls' = calls + 1 /\ returned'.op = "StartAuth" /\ returned'.err # Nil)
          => nonces' = nonces]_vars

C19_Witness ==
    /\ returned.op = "StartAuth"
    /\ returned.err # Nil
    /\ calls > 1
    /\ cache[DiscoveryURL].err # Nil
    /\ cache[DiscoveryURL].gen = 1
    /\ cache[DiscoveryURL].at < now

\* ---------------------------------------------------------------- claim C18
\* C18: a Verify that fails because the discovery document or the key set
\* could not be fetched leaves the nonce pair intact, so that a later Verify of
\* the same valid token, made once the fetch succeeds again, succeeds and
\* returns the email: the pair of a token whose Verify so failed stays stored
\* until a Verify of it calls ConsumeNonce, which then succeeds.
C18_FetchFailureKeepsPairForRetry ==
    /\ (returned.op = "Verify" /\ ~returned.parsed /\ returned.token.parse = Nil) =>
          (~returned.called /\ ~returned.changed)
    /\ \A name \in deferred : (name[1] \o ":" \o name[2]) \in nonces
    /\ (Accepted /\ returned.called /\ returned.wasDeferred) =>
          (returned.err = Nil /\ returned.email = returned.token.email)

\* ---------------------------------------------------------------- claim C20
\* The locks of the store a goroutine holds: the map lock, entry locks, the
\* nonce lock.
LocksHeld(p) ==
    (IF cacheLock = p THEN {"cacheLock"} ELSE {})
    \cup {url \in URLs : entryLock[url] = p}
    \cup (IF noncesLock = p THEN {"noncesLock"} ELSE {})

\* C20: no caller ever holds two of the store's locks at the same time, and,
\* with fair scheduling and network calls that return, every Fetch, NewNonce
\* and ConsumeNonce call returns in the end, with every lock it took released.
C20_NoTwoLocksAndCallsReturn ==
    /\ [](\A p \in Procs : Cardinality(LocksHeld(p)) <= 1)
    /\ [](\A p \in Procs : pc[p] = "idle" => LocksHeld(p) = {})
    /\ \A p \in Procs : (pc[p] # "idle") ~> (pc[p] = "idle")

C20_Witness ==
    \E p, q \in Procs :
        /\ pc[p] = "e_lock"
        /\ pc[q] = "net"
        /\ frame[p].url = frame[q].url
        /\ entryLock[frame[p].url] = q
====
